---- MODULE Spec2Model ----
(***************************************************************************)
(* A model of fishnet's src/stats.rs: the StatsRecorder (in-memory         *)
(* counters, the ~/.fishnet-stats snapshot file, the stats.db SQLite log)  *)
(* and the NpsRecorder throughput estimator.                               *)
(*                                                                         *)
(* The snapshot file is a sequence of byte tokens: every punctuation       *)
(* character, whitespace character and decimal digit is one token, and a   *)
(* quoted JSON string is one token (named by its content).  u64 is kept    *)
(* as an unsigned integer of U64Bits bits, so that overflow, the u64       *)
(* range check of the JSON parser and the `as i64` cast all happen.  f64   *)
(* is IEEE 754 binary64 with round-to-nearest-even, bit for bit.           *)
(***************************************************************************)
EXTENDS Integers, Sequences, FiniteSets, TLC

VARIABLES
    build,      \* overflow checks of the build: "checked", "wrapping", or
                \* "unobserved" while no += has overflowed yet
    phase,      \* "down" | "up" | "aborted" (panic) | "killed" (interrupted)
    opt,        \* StatsOpt.no_stats_file of the last construction
    path,       \* the resolved snapshot path: "Some", "None", "unset"
    env,        \* the I/O outcomes the last construction met
    loaded,     \* what load_from returned to the last construction
    stats,      \* StatsRecorder.stats
    nnue_nps,   \* StatsRecorder.nnue_nps
    store,      \* StatsRecorder.store is Some
    cores,      \* StatsRecorder.cores
    db_conn,    \* StatsRecorder.db_conn is Some
    file,       \* the snapshot file on disk: [exists, data]
    db,         \* stats.db on disk: [table, rows]
    runs,       \* constructions so far
    calls,      \* record_batch calls entered by the running Recorder
    total,      \* record_batch calls entered over all runs
    base,       \* the counters construction returned
    sums,       \* the deltas reported to the running Recorder, unwrapped
    hist,       \* the counters all runs together should have reached
    faithful,   \* every run so far loaded the store and every write succeeded
    lastWrite,  \* outcome of the last record_batch's save_to
    lastAppend, \* outcome of the last record_batch's save_to_database:
                \* "none" (not reached) | "ok" | "err" | "panicked"
    fed,        \* the samples the running Recorder's estimator was given
    lastSample  \* the nnue_nps argument of the last record_batch call

vars == <<build, phase, opt, path, env, loaded, stats, nnue_nps, store, cores, db_conn,
          file, db, runs, calls, total, base, sums, hist, faithful,
          lastWrite, lastAppend, fed, lastSample>>

----------------------------------------------------------------------------
(* Bounds of the model *)

U64Bits == 4
MaxRuns == 2
MaxCalls == 2
MaxIngests == 7060
MaxConverge == 120

U64Max == 2^U64Bits - 1
U64Mod == 2^U64Bits

----------------------------------------------------------------------------
(* Stats and its JSON snapshot *)

FieldNames == <<"total_batches", "total_positions", "total_nodes">>

MkStats(b, p, n) == [total_batches |-> b, total_positions |-> p, total_nodes |-> n]

StatsDefault == MkStats(0, 0, 0)

DigitChars == <<"0", "1", "2", "3", "4", "5", "6", "7", "8", "9">>

IsDigit(t) == \E d \in 1..10 : DigitChars[d] = t

DigitVal(t) == (CHOOSE d \in 1..10 : DigitChars[d] = t) - 1

IsWs(t) == t \in {" ", "\n"}

RECURSIVE Itoa(_)
Itoa(n) == IF n < 10 THEN <<DigitChars[n + 1]>>
           ELSE Itoa(n \div 10) \o <<DigitChars[(n % 10) + 1]>>

PrettyField(name, v) == <<"\n", " ", " ", name, ":", " ">> \o Itoa(v)

to_string_pretty(s) ==
    <<"{">> \o PrettyField("total_batches", s.total_batches) \o <<",">>
            \o PrettyField("total_positions", s.total_positions) \o <<",">>
            \o PrettyField("total_nodes", s.total_nodes) \o <<"\n", "}">>

----------------------------------------------------------------------------
(* serde_json::from_slice::<Stats>, over the token sequence *)

StringTokens == {"total_batches", "total_positions", "total_nodes", "id"}

Missing == 0 - 1

Fail == [ok |-> FALSE]

RECURSIVE SkipWs(_, _)
SkipWs(buf, i) == IF i <= Len(buf) /\ IsWs(buf[i]) THEN SkipWs(buf, i + 1) ELSE i

At(buf, i) == IF i <= Len(buf) THEN buf[i] ELSE "EOF"

(* The digits of a number from position i on; a value above u64::MAX makes *)
(* serde_json continue as f64, which a u64 field rejects.                  *)
RECURSIVE ParseDigits(_, _, _)
ParseDigits(buf, i, acc) ==
    IF IsDigit(At(buf, i))
    THEN LET v == acc * 10 + DigitVal(buf[i])
         IN  IF v > U64Max THEN Fail ELSE ParseDigits(buf, i + 1, v)
    ELSE [ok |-> TRUE, val |-> acc, next |-> i]

ParseU64(buf, i0) ==
    LET i == SkipWs(buf, i0)
    IN  IF ~IsDigit(At(buf, i)) THEN Fail
        ELSE IF buf[i] = "0"
             THEN IF IsDigit(At(buf, i + 1)) THEN Fail
                  ELSE [ok |-> TRUE, val |-> 0, next |-> i + 1]
             ELSE ParseDigits(buf, i, 0)

(* A value of a key Stats does not have (serde ignores unknown fields):    *)
(* any number, or a string.                                                *)
RECURSIVE SkipDigits(_, _)
SkipDigits(buf, i) == IF IsDigit(At(buf, i)) THEN SkipDigits(buf, i + 1) ELSE i

ParseIgnored(buf, i0) ==
    LET i == SkipWs(buf, i0)
    IN  IF At(buf, i) \in StringTokens THEN [ok |-> TRUE, next |-> i + 1]
        ELSE IF ~IsDigit(At(buf, i)) THEN Fail
        ELSE IF buf[i] = "0"
             THEN IF IsDigit(At(buf, i + 1)) THEN Fail
                  ELSE [ok |-> TRUE, next |-> i + 1]
             ELSE [ok |-> TRUE, next |-> SkipDigits(buf, i)]

NoFields == [f \in {"total_batches", "total_positions", "total_nodes"} |-> Missing]

(* One step of the derived visit_map: the closing brace (done), or one     *)
(* more key with its value; a duplicate field, a missing colon, a trailing *)
(* comma and a non-string key are errors.                                  *)
MapMember(buf, i0, first, got, closers) ==
    LET i == SkipWs(buf, i0)
        k == IF At(buf, i) = "," /\ ~first THEN SkipWs(buf, i + 1) ELSE i
        c == SkipWs(buf, k + 1)
    IN  IF At(buf, i) \in closers
        THEN [ok |-> TRUE, done |-> TRUE, got |-> got, next |-> i]
        ELSE IF At(buf, i) # "," /\ ~first THEN Fail
        ELSE IF At(buf, k) \notin StringTokens THEN Fail
        ELSE IF At(buf, c) # ":" THEN Fail
        ELSE IF buf[k] \in DOMAIN got
             THEN IF got[buf[k]] # Missing THEN Fail
                  ELSE LET v == ParseU64(buf, c + 1)
                       IN  IF ~v.ok THEN Fail
                           ELSE [ok |-> TRUE, done |-> FALSE,
                                 got |-> [got EXCEPT ![buf[k]] = v.val],
                                 next |-> v.next]
             ELSE LET v == ParseIgnored(buf, c + 1)
                  IN  IF ~v.ok THEN Fail
                      ELSE [ok |-> TRUE, done |-> FALSE, got |-> got,
                            next |-> v.next]

(* a parser that takes the end of the input for the closing brace *)
RECURSIVE VisitMap_LenientEof(_, _, _, _)
VisitMap_LenientEof(buf, i0, first, got) ==
    CHOOSE r \in {IF ~m.ok \/ m.done THEN m
                  ELSE VisitMap_LenientEof(buf, m.next, FALSE, m.got) :
                      m \in {MapMember(buf, i0, first, got, {"}", "EOF"})}} : TRUE

(* The derived visit_map: members until the closing brace. *)
RECURSIVE VisitMap(_, _, _, _)
VisitMap(buf, i0, first, got) ==
    CHOOSE r \in {IF ~m.ok \/ m.done THEN m
                  ELSE VisitMap(buf, m.next, FALSE, m.got) :
                      m \in {MapMember(buf, i0, first, got, {"}"})}} : TRUE

(* One step of the derived visit_seq: the closing bracket after exactly    *)
(* the three fields (done), or one more element.                           *)
SeqElement(buf, i0, got) ==
    LET i == SkipWs(buf, i0)
        n == Len(got)
    IN  IF n = Len(FieldNames)
        THEN IF At(buf, i) = "]"
             THEN [ok |-> TRUE, done |-> TRUE, got |-> got, next |-> i]
             ELSE Fail
        ELSE IF At(buf, i) = "]" THEN Fail
        ELSE IF n > 0 /\ At(buf, i) # "," THEN Fail
        ELSE LET v == ParseU64(buf, IF n > 0 THEN i + 1 ELSE i)
             IN  IF ~v.ok THEN Fail
                 ELSE [ok |-> TRUE, done |-> FALSE, got |-> Append(got, v.val),
                       next |-> v.next]

(* The derived visit_seq: a JSON array of the three fields in declaration  *)
(* order.                                                                  *)
RECURSIVE VisitSeq(_, _, _)
VisitSeq(buf, i0, got) ==
    CHOOSE r \in {IF ~e.ok \/ e.done THEN e ELSE VisitSeq(buf, e.next, e.got) :
                      e \in {SeqElement(buf, i0, got)}} : TRUE

from_slice(buf) ==
    LET i == SkipWs(buf, 1)
    IN  IF At(buf, i) = "{"
        THEN LET m == VisitMap(buf, i + 1, TRUE, NoFields)
             IN  IF ~m.ok THEN Fail
                 ELSE IF \E f \in DOMAIN m.got : m.got[f] = Missing THEN Fail
                 ELSE IF SkipWs(buf, m.next + 1) <= Len(buf) THEN Fail
                 ELSE [ok |-> TRUE,
                       val |-> MkStats(m.got["total_batches"],
                                       m.got["total_positions"],
                                       m.got["total_nodes"])]
        ELSE IF At(buf, i) = "["
        THEN LET q == VisitSeq(buf, i + 1, <<>>)
             IN  IF ~q.ok THEN Fail
                 ELSE IF SkipWs(buf, q.next + 1) <= Len(buf) THEN Fail
                 ELSE [ok |-> TRUE, val |-> MkStats(q.got[1], q.got[2], q.got[3])]
        ELSE Fail

(* Stats::load_from on an open file whose bytes are data; io is the        *)
(* outcome of the rewind and the read.                                     *)
LoadNotRun == [tag |-> "NotRun"]
LoadNone == [tag |-> "None"]
LoadErr == [tag |-> "Err"]
LoadSome(s) == [tag |-> "Some", stats |-> s]

load_from(data, io) ==
    IF io # "ok" THEN LoadErr
    ELSE IF data = <<>> THEN LoadNone
    ELSE LET r == from_slice(data)
         IN  IF r.ok THEN LoadSome(r.val) ELSE LoadErr

(* Stats::save_to: set_len(0), rewind, write_all.  io.kind is "ok",        *)
(* "set_len_err", "rewind_err" or "write_err" (write_all failed after io.n *)
(* bytes reached the file).  Returns the file's bytes and Ok/Err.          *)
IoOk == [kind |-> "ok", n |-> 0]

(* a save that forgets to truncate *)
set_len_Forgotten(data, size) == data

set_len(data, size) == SubSeq(data, 1, size)

WriteAt(data, pos, bytes) ==
    SubSeq(data, 1, pos) \o bytes
        \o SubSeq(data, pos + Len(bytes) + 1, Len(data))

(* a save that takes a short write for a complete one (write for           *)
(* write_all)                                                              *)
save_to_ShortWrite(self, data, io) ==
    LET bytes == to_string_pretty(self)
        truncated == set_len(data, 0)
    IN  IF io.kind = "set_len_err" THEN [ok |-> FALSE, data |-> data]
        ELSE IF io.kind = "rewind_err" THEN [ok |-> FALSE, data |-> truncated]
        ELSE IF io.kind = "write_err"
        THEN [ok |-> TRUE, data |-> WriteAt(truncated, 0, SubSeq(bytes, 1, io.n))]
        ELSE [ok |-> TRUE, data |-> WriteAt(truncated, 0, bytes)]

save_to(self, data, io) ==
    LET bytes == to_string_pretty(self)
        truncated == set_len(data, 0)
    IN  IF io.kind = "set_len_err" THEN [ok |-> FALSE, data |-> data]
        ELSE IF io.kind = "rewind_err" THEN [ok |-> FALSE, data |-> truncated]
        ELSE IF io.kind = "write_err"
        THEN [ok |-> FALSE, data |-> WriteAt(truncated, 0, SubSeq(bytes, 1, io.n))]
        ELSE [ok |-> TRUE, data |-> WriteAt(truncated, 0, bytes)]

----------------------------------------------------------------------------
(* f64.  A value is m * 2^e with m a natural number of at most             *)
(* MantissaBits bits, written as limbs of LimbBits bits, least significant *)
(* first and without high zero limbs; m has exactly MantissaBits bits      *)
(* unless e = MinExp (subnormal numbers and zero).  Only the values        *)
(* NpsRecorder computes occur: no sign, no infinity, no NaN.  A u32 is a   *)
(* natural number; the samples stay below 2^31.                            *)

LimbBits == 12
Base == 4096
MantissaBits == 53
MinExp == 0 - 1074

Min(a, b) == IF a < b THEN a ELSE b
Max(a, b) == IF a > b THEN a ELSE b

Limb(x, i) == IF i \in 1..Len(x) THEN x[i] ELSE 0

(* x without its high zero limbs *)
Trim(x) ==
    SubSeq(x, 1, CHOOSE k \in 0..Len(x) :
                     /\ k = 0 \/ x[k] # 0
                     /\ \A j \in (k + 1)..Len(x) : x[j] = 0)

RECURSIVE BigOfInt(_)
BigOfInt(n) == IF n = 0 THEN <<>> ELSE <<n % Base>> \o BigOfInt(n \div Base)

RECURSIVE IntOfBig(_)
IntOfBig(x) == IF x = <<>> THEN 0 ELSE x[1] + Base * IntOfBig(Tail(x))

(* cols[i] is the weight of Base^(i-1), not yet reduced below Base *)
RECURSIVE Carry(_, _, _)
Carry(cols, i, c) ==
    IF i > Len(cols) THEN BigOfInt(c)
    ELSE <<(cols[i] + c) % Base>> \o Carry(cols, i + 1, (cols[i] + c) \div Base)

Reduced(cols) == CHOOSE x \in {Trim(s) : s \in {Carry(cols, 1, 0)}} : TRUE

BigAdd(x, y) ==
    CHOOSE sum \in {Reduced(cols) :
                       cols \in {[i \in 1..Max(Len(x), Len(y)) |->
                                     Limb(x, i) + Limb(y, i)]}} : TRUE

(* x - y for x >= y *)
RECURSIVE Borrow(_, _, _, _)
Borrow(x, y, i, b) ==
    IF i > Len(x) THEN <<>>
    ELSE <<(Limb(x, i) - Limb(y, i) - b + Base) % Base>>
             \o Borrow(x, y, i + 1, IF Limb(x, i) - Limb(y, i) - b < 0 THEN 1 ELSE 0)

BigSub(x, y) == CHOOSE d \in {Trim(s) : s \in {Borrow(x, y, 1, 0)}} : TRUE

RECURSIVE ColSum(_, _, _, _)
ColSum(x, y, k, i) ==
    IF i > Len(x) THEN 0 ELSE x[i] * Limb(y, k + 1 - i) + ColSum(x, y, k, i + 1)

BigMul(x, y) ==
    IF x = <<>> \/ y = <<>> THEN <<>>
    ELSE CHOOSE product \in
             {Reduced(cols) :
                  cols \in {[k \in 1..(Len(x) + Len(y) - 1) |->
                                ColSum(x, y, k, 1)]}} : TRUE

BigGt(x, y) ==
    \/ Len(x) > Len(y)
    \/ /\ Len(x) = Len(y)
       /\ \E i \in 1..Len(x) :
              x[i] > y[i] /\ \A j \in (i + 1)..Len(x) : x[j] = y[j]

RECURSIVE IntBitLen(_)
IntBitLen(n) == IF n = 0 THEN 0 ELSE 1 + IntBitLen(n \div 2)

BitLen(x) ==
    IF x = <<>> THEN 0 ELSE LimbBits * (Len(x) - 1) + IntBitLen(x[Len(x)])

(* x div 2^r *)
ShiftRight(x, r) ==
    LET a == r \div LimbBits
        b == r % LimbBits
    IN  IF a >= Len(x) THEN <<>>
        ELSE CHOOSE q \in
                 {Trim(s) :
                      s \in {[i \in 1..(Len(x) - a) |->
                                 (Limb(x, i + a) \div 2^b)
                                     + (Limb(x, i + a + 1) % 2^b)
                                           * 2^(LimbBits - b)]}} : TRUE

(* x * 2^r *)
ShiftLeft(x, r) ==
    LET a == r \div LimbBits
        b == r % LimbBits
    IN  IF x = <<>> THEN <<>>
        ELSE CHOOSE p \in
                 {Trim(s) :
                      s \in {[i \in 1..(Len(x) + a + 1) |->
                                 ((Limb(x, i - a) * 2^b) % Base)
                                     + (Limb(x, i - a - 1)
                                            \div 2^(LimbBits - b))]}} : TRUE

(* bit p of x, bit 0 the least significant *)
Bit(x, p) == (Limb(x, p \div LimbBits + 1) \div 2^(p % LimbBits)) % 2

(* x mod 2^p = 0 *)
LowBitsZero(x, p) ==
    /\ \A i \in 1..(p \div LimbBits) : Limb(x, i) = 0
    /\ Limb(x, p \div LimbBits + 1) % 2^(p % LimbBits) = 0

F64Zero == [m |-> <<>>, e |-> MinExp]

(* Whether x div 2^r is rounded up: more than half a unit is cut off, or  *)
(* exactly half and the quotient is odd.                                   *)
RoundsUp(x, r) ==
    /\ Bit(x, r - 1) = 1
    /\ ~LowBitsZero(x, r - 1) \/ Bit(x, r) = 1

(* m * 2^e where rounding up may have given m one bit too many *)
Renormalized(m, e) ==
    IF BitLen(m) > MantissaBits THEN [m |-> ShiftRight(m, 1), e |-> e + 1]
    ELSE [m |-> m, e |-> e]

(* x * 2^e, x of len bits, with its r lowest bits rounded away (r > 0) or  *)
(* made as wide as the exponent allows (r <= 0)                            *)
RoundBits(x, e, len, r) ==
    IF x = <<>> THEN F64Zero
    ELSE IF r <= 0
    THEN LET s == Min(MantissaBits - len, e - MinExp)
         IN  [m |-> ShiftLeft(x, s), e |-> e - s]
    ELSE CHOOSE f \in
             {Renormalized(m, e + r) :
                  m \in {BigAdd(q, up) :
                            q \in {ShiftRight(x, r)},
                            up \in {IF RoundsUp(x, r) THEN <<1>> ELSE <<>>}}} : TRUE

(* The f64 nearest to x * 2^e, ties to even *)
RoundF64(x, e) ==
    CHOOSE f \in {RoundBits(x, e, len, Max(len - MantissaBits, MinExp - e)) :
                     len \in {BitLen(x)}} : TRUE

F64Mul(a, b) ==
    CHOOSE f \in {RoundF64(x, a.e + b.e) : x \in {BigMul(a.m, b.m)}} : TRUE

F64Add(a, b) ==
    IF a.m = <<>> THEN b
    ELSE IF b.m = <<>> THEN a
    ELSE LET e == Min(a.e, b.e)
         IN  CHOOSE f \in
                 {RoundF64(sum, e) :
                      sum \in {BigAdd(x, y) :
                                  x \in {ShiftLeft(a.m, a.e - e)},
                                  y \in {ShiftLeft(b.m, b.e - e)}}} : TRUE

(* a - b for a >= b *)
F64Sub(a, b) ==
    IF b.m = <<>> THEN a
    ELSE LET e == Min(a.e, b.e)
         IN  CHOOSE f \in
                 {RoundF64(d, e) :
                      d \in {BigSub(x, y) :
                                x \in {ShiftLeft(a.m, a.e - e)},
                                y \in {ShiftLeft(b.m, b.e - e)}}} : TRUE

F64Gt(a, b) == a.e > b.e \/ (a.e = b.e /\ BigGt(a.m, b.m))

(* f64::from(u32) *)
F64FromU32(n) == CHOOSE f \in {RoundF64(x, 0) : x \in {BigOfInt(n)}} : TRUE

(* `x as u32`: the integer part *)
F64AsU32(a) ==
    CHOOSE n \in {IntOfBig(x) :
                     x \in {IF a.e >= 0 THEN ShiftLeft(a.m, a.e)
                            ELSE ShiftRight(a.m, 0 - a.e)}} : TRUE

(* The literals of the source, as rustc reads them *)
F64_1_0 == [m |-> <<\h000, \h000, \h000, \h000, \h010>>, e |-> 0 - 52]
F64_0_9 == [m |-> <<\hCCD, \hCCC, \hCCC, \hCCC, \h01C>>, e |-> 0 - 53]
F64_0_7 == [m |-> <<\h666, \h666, \h666, \h666, \h016>>, e |-> 0 - 53]
F64_0_4 == [m |-> <<\h99A, \h999, \h999, \h999, \h019>>, e |-> 0 - 54]
F64_0_1 == [m |-> <<\h99A, \h999, \h999, \h999, \h019>>, e |-> 0 - 56]

----------------------------------------------------------------------------
(* NpsRecorder *)

InitialNps == 400000

(* f64::MIN_POSITIVE, 2^-1022: the smallest f64 with a full mantissa *)
F64MinPositive == [m |-> <<\h000, \h000, \h000, \h000, \h010>>, e |-> MinExp]

NpsRecorderNew == [nps |-> InitialNps, uncertainty |-> F64_1_0]

(* (f64::from(n) * wn + f64::from(s) * ws) as u32, every operation        *)
(* rounded as it is made                                                   *)
WeightedSum(n, wn, s, ws) ==
    CHOOSE v \in
        {F64AsU32(sum) :
             sum \in {F64Add(x, y) :
                         x \in {F64Mul(fn, wn) : fn \in {F64FromU32(n)}},
                         y \in {F64Mul(fs, w) : fs \in {F64FromU32(s)},
                                                 w \in {ws}}}} : TRUE

(* an estimator whose uncertainty stays where it is *)
record_KeepsUncertainty(self, nps) ==
    LET alpha == F64_0_9
    IN  [uncertainty |-> self.uncertainty,
         nps |-> WeightedSum(self.nps, alpha, nps, F64Sub(F64_1_0, alpha))]

(* an estimator that decays the estimate and leaves the sample out *)
record_ForgetsSample(self, nps) ==
    LET alpha == F64_0_9
    IN  [uncertainty |-> F64Mul(self.uncertainty, alpha),
         nps |-> WeightedSum(self.nps, alpha, 0, F64Sub(F64_1_0, alpha))]

record(self, nps) ==
    LET alpha == F64_0_9
    IN  [uncertainty |-> F64Mul(self.uncertainty, alpha),
         nps |-> WeightedSum(self.nps, alpha, nps, F64Sub(F64_1_0, alpha))]

(* a display whose second marker appears above 0.1 already *)
Display_SecondMarkerEarly(self) ==
    <<self.nps \div 1000, " knps/core">>
        \o (IF F64Gt(self.uncertainty, F64_0_4) THEN <<" ?">> ELSE <<>>)
        \o (IF F64Gt(self.uncertainty, F64_0_1) THEN <<"?">> ELSE <<>>)
        \o (IF F64Gt(self.uncertainty, F64_0_7) THEN <<"?">> ELSE <<>>)

(* Display: the text in pieces, the number first *)
Display(self) ==
    <<self.nps \div 1000, " knps/core">>
        \o (IF F64Gt(self.uncertainty, F64_0_1) THEN <<" ?">> ELSE <<>>)
        \o (IF F64Gt(self.uncertainty, F64_0_4) THEN <<"?">> ELSE <<>>)
        \o (IF F64Gt(self.uncertainty, F64_0_7) THEN <<"?">> ELSE <<>>)

NoSample == [some |-> FALSE, val |-> 0]
SomeSample(v) == [some |-> TRUE, val |-> v]

unwrap_or_default(o) == IF o.some THEN o.val ELSE 0

----------------------------------------------------------------------------
(* record_batch, lines 134-136: the three += on u64.  With overflow checks *)
(* (a debug build) an overflowing += panics and the fields assigned before *)
(* it keep their new values; without, it wraps.                            *)

Overflows(a, b) == a + b > U64Max

WrappingAdd(a, b) == (a + b) % U64Mod

AddCounters(self, positions, nodes, checked) ==
    IF checked /\ Overflows(self.total_batches, 1)
    THEN [panicked |-> TRUE, stats |-> self]
    ELSE LET s1 == [self EXCEPT !.total_batches = WrappingAdd(@, 1)]
         IN  IF checked /\ Overflows(s1.total_positions, positions)
             THEN [panicked |-> TRUE, stats |-> s1]
             ELSE LET s2 == [s1 EXCEPT !.total_positions = WrappingAdd(@, positions)]
                  IN  IF checked /\ Overflows(s2.total_nodes, nodes)
                      THEN [panicked |-> TRUE, stats |-> s2]
                      ELSE [panicked |-> FALSE,
                            stats |-> [s2 EXCEPT !.total_nodes = WrappingAdd(@, nodes)]]

(* `x as i64` of a u64 *)
AsI64(x) == IF x >= U64Mod \div 2 THEN x - U64Mod ELSE x

(* save_to_database: the clock before the epoch panics ("Time went         *)
(* backwards"); otherwise one INSERT, which may fail.                      *)
save_to_database(self, rows, sample, now, ins) ==
    IF now < 0 THEN [panicked |-> TRUE, ok |-> FALSE, rows |-> rows]
    ELSE IF ins # "ok" THEN [panicked |-> FALSE, ok |-> FALSE, rows |-> rows]
    ELSE [panicked |-> FALSE, ok |-> TRUE,
          rows |-> Append(rows, [timestamp |-> now,
                                 total_batches |-> AsI64(self.total_batches),
                                 total_positions |-> AsI64(self.total_positions),
                                 total_nodes |-> AsI64(self.total_nodes),
                                 nnue_nps |-> unwrap_or_default(sample)])]

(* initialize_database: Connection::open, then CREATE TABLE IF NOT EXISTS *)
initialize_database(d, io) ==
    IF io = "ok" THEN [ok |-> TRUE, db |-> [d EXCEPT !.table = TRUE]]
    ELSE [ok |-> FALSE, db |-> d]

default_stats_file(home) == IF home THEN "Some" ELSE "None"

----------------------------------------------------------------------------
(* StatsRecorder::new.  o is the StatsOpt (stats_file: whether a path is   *)
(* given), home whether home_dir() resolves, f and d the disk, io the      *)
(* outcomes of open, of load_from's I/O and of initialize_database.        *)

OpenFile(f) == [exists |-> TRUE, data |-> f.data]

(* a construction that loads the snapshot and does not use it *)
LoadedStats_Discarded(r) == StatsDefault

LoadedStats(r) == IF r.tag = "Some" THEN r.stats ELSE StatsDefault

(* a construction that drops the file handle when the load fails *)
StatsRecorderNew_DropsHandle(o, home, c, f, d, io) ==
    IF o.no_stats_file
    THEN [stats |-> StatsDefault, store |-> FALSE, nnue_nps |-> NpsRecorderNew,
          cores |-> c, db_conn |-> FALSE, file |-> f, db |-> d,
          path |-> "unset", loaded |-> LoadNotRun]
    ELSE LET p == IF o.stats_file THEN "Some" ELSE default_stats_file(home)
             opened == p = "Some" /\ io.open = "ok"
             r == load_from(f.data, io.read)
             conn == initialize_database(d, io.db)
         IN  [stats |-> IF opened THEN LoadedStats(r) ELSE StatsDefault,
              store |-> opened /\ r.tag # "Err",
              nnue_nps |-> NpsRecorderNew,
              cores |-> c,
              db_conn |-> conn.ok,
              file |-> IF opened THEN OpenFile(f) ELSE f,
              db |-> conn.db,
              path |-> p,
              loaded |-> IF opened THEN r ELSE LoadNotRun]

(* a construction that sets up stats.db before it looks at no_stats_file *)
StatsRecorderNew_AlwaysLogs(o, home, c, f, d, io) ==
    IF o.no_stats_file
    THEN [stats |-> StatsDefault, store |-> FALSE, nnue_nps |-> NpsRecorderNew,
          cores |-> c, db_conn |-> FALSE, file |-> f,
          db |-> initialize_database(d, io.db).db,
          path |-> "unset", loaded |-> LoadNotRun]
    ELSE LET p == IF o.stats_file THEN "Some" ELSE default_stats_file(home)
             opened == p = "Some" /\ io.open = "ok"
             r == load_from(f.data, io.read)
             conn == initialize_database(d, io.db)
         IN  [stats |-> IF opened THEN LoadedStats(r) ELSE StatsDefault,
              store |-> opened,
              nnue_nps |-> NpsRecorderNew,
              cores |-> c,
              db_conn |-> conn.ok,
              file |-> IF opened THEN OpenFile(f) ELSE f,
              db |-> conn.db,
              path |-> p,
              loaded |-> IF opened THEN r ELSE LoadNotRun]

StatsRecorderNew(o, home, c, f, d, io) ==
    IF o.no_stats_file
    THEN [stats |-> StatsDefault, store |-> FALSE, nnue_nps |-> NpsRecorderNew,
          cores |-> c, db_conn |-> FALSE, file |-> f, db |-> d,
          path |-> "unset", loaded |-> LoadNotRun]
    ELSE LET p == IF o.stats_file THEN "Some" ELSE default_stats_file(home)
             opened == p = "Some" /\ io.open = "ok"
             r == load_from(f.data, io.read)
             conn == initialize_database(d, io.db)
         IN  [stats |-> IF opened THEN LoadedStats(r) ELSE StatsDefault,
              store |-> opened,
              nnue_nps |-> NpsRecorderNew,
              cores |-> c,
              db_conn |-> conn.ok,
              file |-> IF opened THEN OpenFile(f) ELSE f,
              db |-> conn.db,
              path |-> p,
              loaded |-> IF opened THEN r ELSE LoadNotRun]

----------------------------------------------------------------------------
(* The inputs and environment outcomes the model draws from *)

Deltas == {<<1, 2>>, <<U64Max, 0>>}
Samples == {NoSample, SomeSample(300000)}
Clock == {0 - 1, 1}
CoreCounts == {2}
IoOutcomes == {"ok", "err"}
Opts == {[no_stats_file |-> TRUE, stats_file |-> FALSE],
         [no_stats_file |-> FALSE, stats_file |-> TRUE],
         [no_stats_file |-> FALSE, stats_file |-> FALSE]}
Builds == {"checked", "wrapping"}
Envs == [open : IoOutcomes, read : IoOutcomes, db : IoOutcomes]
CleanEnv == [open |-> "ok", read |-> "ok", db |-> "ok"]

(* Where a failing write_all stops: one byte short of the end (a failed    *)
(* rewind leaves what a write failing at once does).                       *)
CutPoints(len) == {len - 1}

MaxSnapshotLen == Len(to_string_pretty(MkStats(U64Max, U64Max, U64Max)))

WriteOutcomes(s) ==
    {IoOk, [kind |-> "set_len_err", n |-> 0], [kind |-> "rewind_err", n |-> 0]}
        \cup {[kind |-> "write_err", n |-> k] : k \in CutPoints(Len(to_string_pretty(s)))}

(* The snapshot files a first run may find: none, an empty one, garbage    *)
(* (a snapshot followed by a stray byte), a snapshot written by hand       *)
(* (compact, keys in another order, a key Stats does not have) and one     *)
(* written by save_to.                                                     *)
HandWritten ==
    [data |-> <<"{", "total_nodes", ":", "3", ",", "id", ":", "7", ",",
                "total_batches", ":", "1", ",", "total_positions", ":", "2",
                "}", "\n">>,
     val |-> MkStats(1, 2, 3)]

Saved == [data |-> to_string_pretty(MkStats(U64Max, U64Max, U64Max)),
          val |-> MkStats(U64Max, U64Max, U64Max)]

Garbage == Saved.data \o <<"x">>

InitialData == {<<>>, Garbage, HandWritten.data, Saved.data}

InitialFiles == {[exists |-> FALSE, data |-> <<>>]}
                    \cup {[exists |-> TRUE, data |-> x] : x \in InitialData}

----------------------------------------------------------------------------
(* The state machine *)

Init ==
    /\ build = "unobserved"
    /\ phase = "down"
    /\ opt = FALSE
    /\ path = "unset"
    /\ env = CleanEnv
    /\ loaded = LoadNotRun
    /\ stats = StatsDefault
    /\ nnue_nps = NpsRecorderNew
    /\ store = FALSE
    /\ cores = 1
    /\ db_conn = FALSE
    /\ file \in InitialFiles
    /\ db = [table |-> FALSE, rows |-> <<>>]
    /\ runs = 0
    /\ calls = 0
    /\ total = 0
    /\ base = StatsDefault
    /\ sums = StatsDefault
    /\ hist = StatsDefault
    /\ faithful = TRUE
    /\ lastWrite = "none"
    /\ lastAppend = "none"
    /\ fed = {}
    /\ lastSample = NoSample

(* a construction that unwraps the result of load_from *)
New_Unwraps(o, home, c, e) ==
    /\ runs < MaxRuns
    /\ \E r \in {StatsRecorderNew(o, home, c, file, db, e)} :
           /\ phase' = IF r.loaded.tag = "Err" THEN "aborted" ELSE "up"
           /\ opt' = o.no_stats_file
           /\ path' = r.path
           /\ env' = e
           /\ loaded' = r.loaded
           /\ stats' = r.stats
           /\ nnue_nps' = r.nnue_nps
           /\ store' = r.store
           /\ cores' = r.cores
           /\ db_conn' = r.db_conn
           /\ file' = r.file
           /\ db' = r.db
           /\ base' = r.stats
           /\ hist' = IF runs = 0 THEN r.stats ELSE hist
           /\ faithful' = (faithful /\ r.store /\ e.read = "ok")
    /\ runs' = runs + 1
    /\ calls' = 0
    /\ sums' = StatsDefault
    /\ lastWrite' = "none"
    /\ lastAppend' = "none"
    /\ fed' = {}
    /\ lastSample' = NoSample
    /\ UNCHANGED <<build, total>>

(* A process start: the previous process, if any, has ended (normally, by  *)
(* a panic or by being killed) and its handles are released.               *)
New(o, home, c, e) ==
    /\ runs < MaxRuns
    /\ \E r \in {StatsRecorderNew(o, home, c, file, db, e)} :
           /\ phase' = "up"
           /\ opt' = o.no_stats_file
           /\ path' = r.path
           /\ env' = e
           /\ loaded' = r.loaded
           /\ stats' = r.stats
           /\ nnue_nps' = r.nnue_nps
           /\ store' = r.store
           /\ cores' = r.cores
           /\ db_conn' = r.db_conn
           /\ file' = r.file
           /\ db' = r.db
           /\ base' = r.stats
           /\ hist' = IF runs = 0 THEN r.stats ELSE hist
           /\ faithful' = (faithful /\ r.store /\ e.read = "ok")
    /\ runs' = runs + 1
    /\ calls' = 0
    /\ sums' = StatsDefault
    /\ lastWrite' = "none"
    /\ lastAppend' = "none"
    /\ fed' = {}
    /\ lastSample' = NoSample
    /\ UNCHANGED <<build, total>>

AddSums(h, positions, nodes) ==
    MkStats(h.total_batches + 1, h.total_positions + positions, h.total_nodes + nodes)

(* Whether the += of this call overflow, on the wrapped values *)
AnyOverflow(self, positions, nodes) ==
    AddCounters(self, positions, nodes, TRUE).panicked

(* a record_batch that returns at the first failed write, before the log *)
RecordBatch_ReturnsOnWriteError(positions, nodes, sample, wr, now, ins, b) ==
    /\ phase = "up"
    /\ total < MaxCalls
    /\ b = build \/ (build = "unobserved" /\ AnyOverflow(stats, positions, nodes))
    /\ \E a \in {AddCounters(stats, positions, nodes, b = "checked")} :
       \E w \in {save_to(a.stats, file.data, wr)},
          q \in {save_to_database(a.stats, db.rows, sample, now, ins)},
          est \in {IF sample.some THEN record(nnue_nps, sample.val) ELSE nnue_nps} :
           /\ stats' = a.stats
           /\ nnue_nps' = IF a.panicked THEN nnue_nps ELSE est
           /\ file' = IF ~a.panicked /\ store THEN [file EXCEPT !.data = w.data] ELSE file
           /\ lastWrite' = IF a.panicked \/ ~store THEN "none"
                           ELSE IF w.ok THEN "ok" ELSE "err"
           /\ db' = IF ~a.panicked /\ db_conn /\ (store => w.ok)
                    THEN [db EXCEPT !.rows = q.rows] ELSE db
           /\ lastAppend' = IF a.panicked \/ ~db_conn \/ (store /\ ~w.ok) THEN "none"
                            ELSE IF q.panicked THEN "panicked"
                            ELSE IF q.ok THEN "ok" ELSE "err"
           /\ fed' = IF a.panicked \/ ~sample.some THEN fed
                     ELSE fed \cup {sample.val}
           /\ phase' = IF a.panicked \/ (db_conn /\ (store => w.ok) /\ q.panicked)
                       THEN "aborted" ELSE "up"
           /\ faithful' = (faithful /\ ~a.panicked /\ store /\ w.ok)
    /\ build' = b
    /\ lastSample' = sample
    /\ calls' = calls + 1
    /\ total' = total + 1
    /\ sums' = AddSums(sums, positions, nodes)
    /\ hist' = AddSums(hist, positions, nodes)
    /\ UNCHANGED <<opt, path, env, loaded, store, cores, db_conn, runs, base>>

(* a record_batch that gives up the snapshot handle after a failed write *)
RecordBatch_DropsFailedStore(positions, nodes, sample, wr, now, ins, b) ==
    /\ phase = "up"
    /\ total < MaxCalls
    /\ b = build \/ (build = "unobserved" /\ AnyOverflow(stats, positions, nodes))
    /\ \E a \in {AddCounters(stats, positions, nodes, b = "checked")} :
       \E w \in {save_to(a.stats, file.data, wr)},
          q \in {save_to_database(a.stats, db.rows, sample, now, ins)},
          est \in {IF sample.some THEN record(nnue_nps, sample.val) ELSE nnue_nps} :
           /\ stats' = a.stats
           /\ nnue_nps' = IF a.panicked THEN nnue_nps ELSE est
           /\ file' = IF ~a.panicked /\ store THEN [file EXCEPT !.data = w.data] ELSE file
           /\ lastWrite' = IF a.panicked \/ ~store THEN "none"
                           ELSE IF w.ok THEN "ok" ELSE "err"
           /\ db' = IF ~a.panicked /\ db_conn THEN [db EXCEPT !.rows = q.rows] ELSE db
           /\ lastAppend' = IF a.panicked \/ ~db_conn THEN "none"
                            ELSE IF q.panicked THEN "panicked"
                            ELSE IF q.ok THEN "ok" ELSE "err"
           /\ fed' = IF a.panicked \/ ~sample.some THEN fed
                     ELSE fed \cup {sample.val}
           /\ phase' = IF a.panicked \/ (db_conn /\ q.panicked) THEN "aborted" ELSE "up"
           /\ faithful' = (faithful /\ ~a.panicked /\ store /\ w.ok)
           /\ store' = (store /\ (a.panicked \/ w.ok))
    /\ build' = b
    /\ lastSample' = sample
    /\ calls' = calls + 1
    /\ total' = total + 1
    /\ sums' = AddSums(sums, positions, nodes)
    /\ hist' = AddSums(hist, positions, nodes)
    /\ UNCHANGED <<opt, path, env, loaded, cores, db_conn, runs, base>>

RecordBatch(positions, nodes, sample, wr, now, ins, b) ==
    /\ phase = "up"
    /\ total < MaxCalls
    /\ b = build \/ (build = "unobserved" /\ AnyOverflow(stats, positions, nodes))
    /\ \E a \in {AddCounters(stats, positions, nodes, b = "checked")} :
       \E w \in {save_to(a.stats, file.data, wr)},
          q \in {save_to_database(a.stats, db.rows, sample, now, ins)},
          est \in {IF sample.some THEN record(nnue_nps, sample.val) ELSE nnue_nps} :
           /\ stats' = a.stats
           /\ nnue_nps' = IF a.panicked THEN nnue_nps ELSE est
           /\ file' = IF ~a.panicked /\ store THEN [file EXCEPT !.data = w.data] ELSE file
           /\ lastWrite' = IF a.panicked \/ ~store THEN "none"
                           ELSE IF w.ok THEN "ok" ELSE "err"
           /\ db' = IF ~a.panicked /\ db_conn THEN [db EXCEPT !.rows = q.rows] ELSE db
           /\ lastAppend' = IF a.panicked \/ ~db_conn THEN "none"
                            ELSE IF q.panicked THEN "panicked"
                            ELSE IF q.ok THEN "ok" ELSE "err"
           /\ fed' = IF a.panicked \/ ~sample.some THEN fed
                     ELSE fed \cup {sample.val}
           /\ phase' = IF a.panicked \/ (db_conn /\ q.panicked) THEN "aborted" ELSE "up"
           /\ faithful' = (faithful /\ ~a.panicked /\ store /\ w.ok)
    /\ build' = b
    /\ lastSample' = sample
    /\ calls' = calls + 1
    /\ total' = total + 1
    /\ sums' = AddSums(sums, positions, nodes)
    /\ hist' = AddSums(hist, positions, nodes)
    /\ UNCHANGED <<opt, path, env, loaded, store, cores, db_conn, runs, base>>

(* The process is killed inside save_to, after set_len(0) and before       *)
(* write_all has written everything: k bytes of the snapshot are on disk.  *)
RecordBatchInterrupted(positions, nodes, sample, k, b) ==
    /\ phase = "up"
    /\ total < MaxCalls
    /\ store
    /\ b = build \/ (build = "unobserved" /\ AnyOverflow(stats, positions, nodes))
    /\ \E a \in {AddCounters(stats, positions, nodes, b = "checked")} :
           /\ ~a.panicked
           /\ k < Len(to_string_pretty(a.stats))
           /\ \E w \in {save_to(a.stats, file.data,
                                 [kind |-> "write_err", n |-> k])} :
                  file' = [file EXCEPT !.data = w.data]
           /\ stats' = a.stats
           /\ nnue_nps' = IF sample.some THEN record(nnue_nps, sample.val)
                          ELSE nnue_nps
    /\ build' = b
    /\ lastSample' = sample
    /\ phase' = "killed"
    /\ calls' = calls + 1
    /\ total' = total + 1
    /\ sums' = AddSums(sums, positions, nodes)
    /\ hist' = AddSums(hist, positions, nodes)
    /\ faithful' = FALSE
    /\ lastWrite' = "none"
    /\ lastAppend' = "none"
    /\ fed' = IF sample.some THEN fed \cup {sample.val} ELSE fed
    /\ UNCHANGED <<opt, path, env, loaded, store, cores, db_conn, db, runs, base>>

(* Outcomes are drawn only for the operations a call performs. *)
NewPerforms(o, home, e) ==
    LET resolved == ~o.no_stats_file /\ (o.stats_file \/ home)
    IN  /\ (o.no_stats_file \/ o.stats_file) => home
        /\ ~resolved => e.open = "ok"
        /\ (~resolved \/ e.open # "ok") => e.read = "ok"
        /\ o.no_stats_file => e.db = "ok"

BatchPerforms(wr, now, ins) ==
    /\ ~store => wr = IoOk
    /\ ~db_conn => (now = 1 /\ ins = "ok")
    /\ now < 0 => ins = "ok"

StartProcess ==
    \E o \in Opts, home \in BOOLEAN, c \in CoreCounts, e \in Envs :
        NewPerforms(o, home, e) /\ New(o, home, c, e)

ReportBatch ==
    \E d \in Deltas, sample \in Samples, now \in Clock, ins \in IoOutcomes,
       b \in Builds \cup {"unobserved"} :
        \E wr \in WriteOutcomes(AddCounters(stats, d[1], d[2], FALSE).stats) :
            BatchPerforms(wr, now, ins)
                /\ RecordBatch(d[1], d[2], sample, wr, now, ins, b)

Next == StartProcess \/ ReportBatch

Spec == Init /\ [][Next]_vars

(* Runs whose I/O all succeeds, killed at any byte of a snapshot write *)

StartClean ==
    \E o \in Opts, c \in CoreCounts : New(o, TRUE, c, CleanEnv)

ReportClean ==
    \E d \in Deltas, sample \in Samples, b \in Builds \cup {"unobserved"} :
        RecordBatch(d[1], d[2], sample, IoOk, 1, "ok", b)

KillInWrite ==
    \E d \in Deltas, sample \in Samples, b \in Builds \cup {"unobserved"},
       k \in 0..MaxSnapshotLen :
        RecordBatchInterrupted(d[1], d[2], sample, k, b)

NextCrash == StartClean \/ ReportClean \/ KillInWrite

SpecCrash == Init /\ [][NextCrash]_vars


(* save_to followed by load_from on one file: every counters value drawn   *)
(* from RoundTripValues, over every file a first run may find.             *)
RoundTripValues == {0, 1, 9, 10, U64Max}

InitRoundTrip ==
    /\ build = "unobserved"
    /\ phase = "unsaved"
    /\ opt = FALSE
    /\ path = "Some"
    /\ env = CleanEnv
    /\ loaded = LoadNotRun
    /\ stats \in {MkStats(b, p, n) : b, p, n \in RoundTripValues}
    /\ base = stats
    /\ nnue_nps = NpsRecorderNew
    /\ store = TRUE
    /\ cores = 1
    /\ db_conn = FALSE
    /\ file \in InitialFiles
    /\ db = [table |-> FALSE, rows |-> <<>>]
    /\ runs = 0
    /\ calls = 0
    /\ total = 0
    /\ sums = StatsDefault
    /\ hist = StatsDefault
    /\ faithful = TRUE
    /\ lastWrite = "none"
    /\ lastAppend = "none"
    /\ fed = {}
    /\ lastSample = NoSample

SaveStep ==
    /\ phase = "unsaved"
    /\ LET w == save_to(stats, file.data, IoOk)
       IN  /\ file' = [exists |-> TRUE, data |-> w.data]
           /\ lastWrite' = IF w.ok THEN "ok" ELSE "err"
    /\ phase' = "saved"
    /\ UNCHANGED <<build, opt, path, env, loaded, stats, nnue_nps, store, cores,
                   db_conn, db, runs, calls, total, base, sums, hist, faithful,
                   lastAppend, fed, lastSample>>

LoadStep ==
    /\ phase = "saved"
    /\ loaded' = load_from(file.data, "ok")
    /\ stats' = LoadedStats(loaded')
    /\ phase' = "reloaded"
    /\ UNCHANGED <<build, opt, path, env, nnue_nps, store, cores, db_conn, file,
                   db, runs, calls, total, base, sums, hist, faithful, lastWrite,
                   lastAppend, fed, lastSample>>

NextRoundTrip == SaveStep \/ LoadStep

SpecRoundTrip == InitRoundTrip /\ [][NextRoundTrip]_vars

(* The estimator over long runs: record_batch as far as nnue_nps goes      *)
(* (lines 138-140), on a Recorder without stores.  A run gives the         *)
(* estimator one rate again and again; its first MaxCalls calls may come   *)
(* without a sample.                                                       *)
IngestSamples == {SomeSample(0), SomeSample(300000), SomeSample(4000000)}

InitEstimator ==
    /\ build = "unobserved"
    /\ phase = "up"
    /\ opt = TRUE
    /\ path = "unset"
    /\ env = CleanEnv
    /\ loaded = LoadNotRun
    /\ stats = StatsDefault
    /\ base = StatsDefault
    /\ nnue_nps = NpsRecorderNew
    /\ store = FALSE
    /\ cores = 1
    /\ db_conn = FALSE
    /\ file = [exists |-> FALSE, data |-> <<>>]
    /\ db = [table |-> FALSE, rows |-> <<>>]
    /\ runs = 1
    /\ calls = 0
    /\ total = 0
    /\ sums = StatsDefault
    /\ hist = StatsDefault
    /\ faithful = FALSE
    /\ lastWrite = "none"
    /\ lastAppend = "none"
    /\ fed = {}
    /\ lastSample = NoSample

Ingest(sample) ==
    /\ phase = "up"
    /\ calls < MaxIngests
    /\ IF sample.some THEN fed \subseteq {sample.val} ELSE calls < MaxCalls
    /\ nnue_nps' = IF sample.some THEN record(nnue_nps, sample.val) ELSE nnue_nps
    /\ fed' = IF sample.some THEN fed \cup {sample.val} ELSE fed
    /\ lastSample' = sample
    /\ calls' = calls + 1
    /\ UNCHANGED <<build, phase, opt, path, env, loaded, stats, store, cores,
                   db_conn, file, db, runs, total, base, sums, hist, faithful,
                   lastWrite, lastAppend>>

NextEstimator == \E sample \in IngestSamples \cup {NoSample} : Ingest(sample)

SpecEstimator == InitEstimator /\ [][NextEstimator]_vars

(* The first MaxConverge calls of such runs.  The calls keep coming:       *)
(* record_batch is called once per finished batch.                         *)
NextConverge ==
    \E sample \in IngestSamples \cup {NoSample} :
        calls < MaxConverge /\ Ingest(sample)

SpecConverge == InitEstimator /\ [][NextConverge]_vars /\ WF_vars(NextConverge)

----------------------------------------------------------------------------
(* The claims *)

IsGarbage(data) == data # <<>> /\ ~from_slice(data).ok

IsStrictPrefix(a, b) == Len(a) < Len(b) /\ a = SubSeq(b, 1, Len(a))

Counted(old, new, reported, reported2) ==
    /\ new.total_batches = WrappingAdd(old.total_batches, 1)
    /\ new.total_positions =
           WrappingAdd(old.total_positions,
                       reported2.total_positions - reported.total_positions)
    /\ new.total_nodes =
           WrappingAdd(old.total_nodes, reported2.total_nodes - reported.total_nodes)

(* C1: from a Recorder that started at zero, after every call (and in the  *)
(* state a panicking call leaves behind) total_batches is the number of    *)
(* calls and total_positions, total_nodes are the sums of the deltas,      *)
(* whatever stores exist and whatever their writes did.                    *)
C1_CountersEqualSums ==
    (phase \in {"up", "aborted"} /\ base = MkStats(0, 0, 0)) => stats = sums

(* C2: a construction that opens the store and reads a file holding a      *)
(* valid snapshot (the one the previous run wrote last, one written by     *)
(* hand, one written by save_to) returns exactly its counters, before any  *)
(* call.                                                                   *)
C2_ResumesExactly ==
    [][(runs' = runs + 1 /\ store' /\ env'.read = "ok")
         => \A k \in {[data |-> to_string_pretty(stats), val |-> stats],
                      HandWritten, Saved} :
               file.data = k.data
                   => (stats' = k.val /\ calls' = 0 /\ phase' = "up")]_vars

C2_Resumed ==
    /\ phase = "up" /\ runs = 2 /\ calls = 0 /\ store
    /\ loaded.tag = "Some"
    /\ stats.total_batches = 2
    /\ file.data = to_string_pretty(stats)

(* C3: while every run opened and read the store, every write succeeded    *)
(* and no run was cut short, the counters equal the counters the first run *)
(* started from plus the calls and deltas of all runs together.            *)
C3_RunsAccumulate == (phase = "up" /\ faithful) => stats = hist

(* C4: save_to then load_from on the same file returns Some of the saved   *)
(* counters, whatever the file held before.                                *)
C4_RoundTrip == phase = "reloaded" => (loaded = LoadSome(base) /\ stats = base)

C4_Reloaded ==
    /\ phase = "reloaded"
    /\ base = MkStats(10, 0, U64Max)
    /\ loaded.tag = "Some"
    /\ Len(file.data) < Len(Garbage)

(* C5: constructing against a non-empty unparseable file gives zero        *)
(* counters, returns normally and keeps the file handle; the first call    *)
(* whose write succeeds then leaves exactly the snapshot of the new        *)
(* counters in the file.                                                   *)
C5_GarbageResets ==
    [][/\ (runs' = runs + 1 /\ ~opt' /\ path' = "Some" /\ env'.open = "ok"
              /\ IsGarbage(file.data))
          => (phase' = "up" /\ stats' = MkStats(0, 0, 0) /\ store' /\ file' = file)
       /\ (calls = 0 /\ calls' = 1 /\ store /\ loaded.tag = "Err"
              /\ IsGarbage(file.data) /\ lastWrite' = "ok")
          => (/\ file'.data = to_string_pretty(stats')
              /\ from_slice(file'.data) = [ok |-> TRUE, val |-> stats']
              /\ stats' = sums')]_vars

C5_GarbageOverwritten ==
    /\ runs = 1 /\ calls = 1 /\ store
    /\ loaded.tag = "Err" /\ env.read = "ok"
    /\ lastWrite = "ok"
    /\ stats.total_batches = 1
    /\ file.data = to_string_pretty(stats)

(* C6: a process killed inside save_to leaves the file empty or a strict   *)
(* prefix of the snapshot, which loads as no data or as an error; the next *)
(* construction returns normally with zero counters.                       *)
C6_TornWriteResets ==
    [][/\ phase' = "killed"
          => (/\ IsStrictPrefix(file'.data, to_string_pretty(stats'))
              /\ load_from(file'.data, "ok").tag \in {"None", "Err"})
       /\ (phase = "killed" /\ runs' = runs + 1)
          => (/\ phase' = "up"
              /\ stats' = MkStats(0, 0, 0)
              /\ loaded'.tag \in {"None", "Err", "NotRun"})]_vars

C6_RestartedAfterTornWrite ==
    /\ runs = 2 /\ phase = "up" /\ calls = 0 /\ store
    /\ loaded.tag = "Err"
    /\ file.data[Len(file.data)] # "x"
    /\ stats = MkStats(0, 0, 0)

(* C7: record_batch never panics. *)
C7_RecordBatchReturns == phase # "aborted"

(* C8: every construction returns normally, whatever it was given and      *)
(* whatever failed: the Recorder has counters in range (the loaded ones,   *)
(* or zero), a fresh estimator, and exactly the handles whose open         *)
(* succeeded.                                                              *)
C8_ConstructionSucceeds ==
    [][runs' = runs + 1
         => (/\ phase' = "up"
             /\ calls' = 0
             /\ \A f \in DOMAIN stats' : stats'[f] \in 0..U64Max
             /\ stats' = IF loaded'.tag = "Some" THEN loaded'.stats
                         ELSE MkStats(0, 0, 0)
             /\ nnue_nps' = [nps |-> 400000, uncertainty |-> F64_1_0]
             /\ store' = (~opt' /\ path' = "Some" /\ env'.open = "ok")
             /\ store' => file'.exists
             /\ db_conn' = (~opt' /\ env'.db = "ok")
             /\ db_conn' => db'.table)]_vars

C8_NothingOpened ==
    /\ runs = 1 /\ calls = 0 /\ phase = "up"
    /\ ~opt /\ path = "Some"
    /\ env.open = "err" /\ env.db = "err"
    /\ ~store /\ ~db_conn

(* C9: with the log missing and the store open, every call updates the     *)
(* counters and (unless the write fails) leaves their snapshot in the      *)
(* file; with the store's open failed and the log there, every call        *)
(* updates the counters and (unless the insert fails) appends one row.     *)
C9_StoresIndependent ==
    [][(phase = "up" /\ calls' = calls + 1 /\ ~opt)
         => (/\ (store /\ ~db_conn /\ lastWrite' # "err")
                => (/\ Counted(stats, stats', sums, sums')
                    /\ file'.data = to_string_pretty(stats'))
             /\ (~store /\ path = "Some" /\ db_conn /\ lastAppend' # "err")
                => (/\ Counted(stats, stats', sums, sums')
                    /\ Len(db'.rows) = Len(db.rows) + 1))]_vars

(* C10: with no_stats_file, construction returns zero counters, a fresh    *)
(* estimator (400000, 1.0) and no handles, and neither it nor any later    *)
(* call changes the snapshot file or the log.                              *)
C10_SuppressedTouchesNothing ==
    [][opt'
         => (/\ file' = file
             /\ db' = db
             /\ ~store' /\ ~db_conn'
             /\ calls' = 0
                => (/\ stats' = MkStats(0, 0, 0)
                    /\ nnue_nps' = [nps |-> 400000, uncertainty |-> F64_1_0]
                    /\ phase' = "up"))]_vars

C10_SuppressedAfterCalls ==
    /\ opt /\ phase = "up" /\ calls = 2
    /\ ~file.exists /\ ~db.table
    /\ stats.total_batches = 2

(* C11: within one run no record_batch call lowers total_batches,          *)
(* total_positions or total_nodes, whatever the deltas.                    *)
C11_CountersNeverDecrease ==
    [][(runs' = runs /\ calls' = calls + 1)
         => \A f \in DOMAIN stats : stats'[f] >= stats[f]]_vars

(* C12: every ingest multiplies uncertainty by 0.9 and sets the estimate   *)
(* to the integer part of 0.9 * estimate + 0.1 * sample; from the initial  *)
(* state ingest(300000) gives 390000 and 0.9.                              *)
C12_IngestArithmetic ==
    [][(calls' = calls + 1 /\ lastSample'.some)
         => (/\ nnue_nps'.uncertainty = F64Mul(nnue_nps.uncertainty, F64_0_9)
             /\ nnue_nps'.nps = (9 * nnue_nps.nps + lastSample'.val) \div 10
             /\ (nnue_nps = NpsRecorderNew /\ lastSample'.val = 300000)
                    => nnue_nps' = [nps |-> 390000, uncertainty |-> F64_0_9])]_vars

(* C13 as stated: uncertainty starts at 1.0, stays within [0, 1], never    *)
(* increases, strictly decreases on every call that carries a sample and   *)
(* is left unchanged, with the estimate, by every call that carries none.  *)
C13_AlwaysStrictlyDecreases ==
    /\ [](calls = 0 => nnue_nps.uncertainty = F64_1_0)
    /\ [](~F64Gt(nnue_nps.uncertainty, F64_1_0))
    /\ [][calls' = calls + 1
            => IF lastSample'.some
               THEN F64Gt(nnue_nps.uncertainty, nnue_nps'.uncertainty)
               ELSE nnue_nps' = nnue_nps]_vars

(* C13: uncertainty starts at 1.0, stays within (0, 1], never increases,   *)
(* strictly decreases on every call that carries a sample (a sample of 0   *)
(* too) as long as it is at least f64::MIN_POSITIVE, and is left           *)
(* unchanged, with the estimate, by every call that carries no sample.     *)
(* Below f64::MIN_POSITIVE it still never increases and never reaches 0.   *)
C13_UncertaintyDecays ==
    /\ [](calls = 0 => nnue_nps.uncertainty = F64_1_0)
    /\ [](/\ ~F64Gt(nnue_nps.uncertainty, F64_1_0)
          /\ F64Gt(nnue_nps.uncertainty, F64Zero))
    /\ [][calls' = calls + 1
            => IF lastSample'.some
               THEN /\ ~F64Gt(nnue_nps'.uncertainty, nnue_nps.uncertainty)
                    /\ ~F64Gt(F64MinPositive, nnue_nps.uncertainty)
                           => F64Gt(nnue_nps.uncertainty, nnue_nps'.uncertainty)
               ELSE nnue_nps' = nnue_nps]_vars

C13_StuckAboveZero ==
    /\ calls > 7050
    /\ lastSample = SomeSample(0)
    /\ nnue_nps.uncertainty = [m |-> <<5>>, e |-> MinExp]
    /\ nnue_nps.nps = 0

(* C14: while the estimator is given 300000 again and again from its       *)
(* initial state, the estimate never increases and never drops below       *)
(* 300000, uncertainty once at most 0.1 stays so and the display then      *)
(* carries no marker, and eventually uncertainty is at most 0.1 and the    *)
(* estimate is 300000.                                                     *)
C14_ConvergesTo300000 ==
    /\ [][(calls' = calls + 1 /\ fed' = {300000})
            => (/\ nnue_nps'.nps <= nnue_nps.nps
                /\ nnue_nps'.nps >= 300000
                /\ ~F64Gt(nnue_nps.uncertainty, F64_0_1)
                       => ~F64Gt(nnue_nps'.uncertainty, F64_0_1)
                /\ ~F64Gt(nnue_nps'.uncertainty, F64_0_1)
                       => Display(nnue_nps') = <<nnue_nps'.nps \div 1000, " knps/core">>)]_vars
    /\ (fed = {300000})
           ~> (~F64Gt(nnue_nps.uncertainty, F64_0_1) /\ nnue_nps.nps = 300000)

C14_Converged ==
    /\ fed = {300000}
    /\ lastSample = SomeSample(300000)
    /\ nnue_nps.nps = 300000
    /\ ~F64Gt(nnue_nps.uncertainty, F64_0_1)
    /\ Display(nnue_nps) = <<300, " knps/core">>

(* The thresholds among 0.1, 0.4, 0.7 that uncertainty strictly exceeds *)
ThresholdsExceeded(self) ==
    Cardinality({t \in {F64_0_1, F64_0_4, F64_0_7} : F64Gt(self.uncertainty, t)})

(* C15: the display is estimate/1000, " knps/core" and one marker per      *)
(* threshold among 0.1, 0.4, 0.7 that uncertainty strictly exceeds (the    *)
(* first marker after a blank): three markers in the initial state and     *)
(* after the first sample, and never more markers after a call than        *)
(* before it.                                                              *)
C15_DisplayMarkers ==
    /\ [](/\ Display(nnue_nps)
                = <<nnue_nps.nps \div 1000, " knps/core">>
                      \o SubSeq(<<" ?", "?", "?">>, 1, ThresholdsExceeded(nnue_nps))
          /\ (calls = 0 \/ (calls = 1 /\ lastSample.some))
                => Display(nnue_nps)
                       = <<nnue_nps.nps \div 1000, " knps/core", " ?", "?", "?">>
          /\ calls = 0 => Display(nnue_nps) = <<400, " knps/core", " ?", "?", "?">>
          /\ (calls = 1 /\ lastSample = SomeSample(300000))
                => Display(nnue_nps) = <<390, " knps/core", " ?", "?", "?">>)
    /\ [][calls' = calls + 1
            => Len(Display(nnue_nps')) <= Len(Display(nnue_nps))]_vars

C15_OneMarkerLeft ==
    /\ lastSample = SomeSample(300000)
    /\ F64Gt(F64_0_4, nnue_nps.uncertainty)
    /\ Display(nnue_nps) = <<nnue_nps.nps \div 1000, " knps/core", " ?">>

(* C16: after every call that has a store and whose save_to succeeds, the  *)
(* file is exactly the snapshot of the counters as they are after the call *)
(* and decodes to them, whatever the file held before and whether or not   *)
(* earlier writes failed.                                                  *)
C16_FileIsOneSnapshot ==
    [][(calls' = calls + 1 /\ store /\ lastWrite' = "ok")
         => (/\ file'.data = to_string_pretty(stats')
             /\ from_slice(file'.data) = [ok |-> TRUE, val |-> stats']
             /\ load_from(file'.data, "ok") = LoadSome(stats'))]_vars

C16_WrittenAfterFailedWrite ==
    /\ runs = 1 /\ calls = 2 /\ phase = "up"
    /\ store /\ env.read = "ok" /\ ~faithful
    /\ lastWrite = "ok"
    /\ file.data = to_string_pretty(stats)
    /\ stats.total_batches = 2

(* C17: with a log connection, every call whose INSERT succeeds adds       *)
(* exactly one row with the three counters as they are after the call and  *)
(* the sample (0 without one); no step changes or removes a row; and two   *)
(* successive rows of one run have strictly increasing total_batches.      *)
C17_OneRowPerCall ==
    [][/\ Len(db'.rows) >= Len(db.rows)
       /\ SubSeq(db'.rows, 1, Len(db.rows)) = db.rows
       /\ (calls' = calls + 1 /\ db_conn /\ lastAppend' = "ok")
          => (/\ Len(db'.rows) = Len(db.rows) + 1
              /\ LET row == db'.rows[Len(db'.rows)]
                 IN  /\ row.total_batches = stats'.total_batches
                     /\ row.total_positions = stats'.total_positions
                     /\ row.total_nodes = stats'.total_nodes
                     /\ row.nnue_nps = IF lastSample'.some THEN lastSample'.val
                                       ELSE 0
                     /\ (calls >= 1 /\ lastAppend = "ok")
                            => db.rows[Len(db.rows)].total_batches
                                   < row.total_batches)]_vars

(* C18: a Recorder constructed without no_stats_file, without an explicit  *)
(* path and without a home directory is up, starts from zero counters and  *)
(* has no snapshot handle, and no record_batch call on it writes to the    *)
(* snapshot file or to stats.db.                                           *)
C18_UnresolvedPathIsInMemoryOnly ==
    [][/\ (runs' = runs + 1 /\ path' = "None")
          => (phase' = "up" /\ stats' = StatsDefault /\ ~store')
       /\ (calls' = calls + 1 /\ path = "None")
          => (file' = file /\ db' = db)]_vars

(* C19: a call whose snapshot write fails still has the counters           *)
(* incremented and still runs the log step, whose own outcome alone        *)
(* decides the rest: a successful INSERT adds the row of this call, and    *)
(* the call fails to return only if the log step itself panics.  A call    *)
(* whose INSERT fails returns with the counters incremented, the log as    *)
(* it was and the snapshot file as the write step left it.                 *)
C19_FailuresAreIsolated ==
    [][(calls' = calls + 1)
         => (/\ lastWrite' = "err"
                => (/\ Counted(stats, stats', sums, sums')
                    /\ db_conn => lastAppend' # "none"
                    /\ lastAppend' = "ok"
                          => (/\ Len(db'.rows) = Len(db.rows) + 1
                              /\ db'.rows[Len(db'.rows)].total_batches
                                    = AsI64(stats'.total_batches))
                    /\ phase' = "aborted" => lastAppend' = "panicked")
             /\ lastAppend' = "err"
                => (/\ Counted(stats, stats', sums, sums')
                    /\ phase' = "up"
                    /\ db' = db
                    /\ lastWrite' = "ok" => file'.data = to_string_pretty(stats')
                    /\ ~store => file' = file))]_vars

C19_RowAfterFailedWrite ==
    /\ phase = "up" /\ calls = 1
    /\ store /\ db_conn
    /\ lastWrite = "err" /\ lastAppend = "ok"
    /\ stats.total_batches = WrappingAdd(base.total_batches, 1)
    /\ file.data # to_string_pretty(stats)
    /\ Len(db.rows) = 1
    /\ db.rows[1].total_batches = AsI64(stats.total_batches)

(* C20: no call changes whether the Recorder has a snapshot handle or a    *)
(* log connection, and none changes cores: a Recorder without a handle     *)
(* never touches the file and one without a connection never touches the   *)
(* log, while a Recorder with a handle writes the snapshot in every call   *)
(* that gets to the write step, also after calls whose write failed.       *)
C20_HandlesAreFixed ==
    [][(calls' = calls + 1)
         => (/\ store' = store
             /\ db_conn' = db_conn
             /\ cores' = cores
             /\ ~store => (file' = file /\ lastWrite' = "none")
             /\ ~db_conn => (db' = db /\ lastAppend' = "none")
             /\ (store /\ ~(phase' = "aborted" /\ lastAppend' = "none"))
                    => lastWrite' \in {"ok", "err"}
             /\ (db_conn /\ ~(phase' = "aborted" /\ lastAppend' = "none"))
                    => lastAppend' \in {"ok", "err", "panicked"})]_vars

C20_StillWrittenAfterFailures ==
    /\ phase = "up" /\ calls = 2
    /\ store /\ ~db_conn /\ env.db = "err"
    /\ cores = 2
    /\ lastWrite = "err"
    /\ stats.total_batches = WrappingAdd(base.total_batches, 2)
    /\ db.rows = <<>>

====
